---- MODULE Spec2Model ----
(***************************************************************************)
(* A model of build.go, the release-build script: version resolution,      *)
(* the toolchain gate, the command dispatch of main, compilation with its  *)
(* checksum sidecar, and the three archive assemblers (tar.gz, zip, deb).  *)
(* Byte strings are TLA+ strings; the file system, the external tools and  *)
(* the I/O faults are the environment.                                     *)
(***************************************************************************)
EXTENDS Integers, Sequences, FiniteSets, TLC

VARIABLES
    release,    \* the RELEASE marker file: [open, read, data]
    describe,   \* what "git describe --always --dirty" does: [err, out]
    cmdline,    \* the command line: [goos, goarch, noupgrade, version, args]
    gover,      \* the result of "go version" the gate stopped at: [ran, err, out]
    fs,         \* the binaries and sidecars of the working directory
    pc,         \* position of the invocation in main and its callees
    version,    \* the package-level variable version
    goos,       \* -goos
    goarch,     \* -goarch
    noupgrade,  \* -no-upgrade
    args,       \* flag.Args()
    argi,       \* how many of flag.Args() the loop of main has taken
    cmd,        \* the command being run, "" for the default (no argument)
    files,      \* the manifest of the archive being assembled
    idx,        \* the loop position in files
    out,        \* the archive file being written
    deb,        \* the deb directory tree: a set of [path, data, perm]
    compiled,   \* the go tool runs that compile: "install", "build", "test"
    logged,     \* the archive names printed by log.Println(filename)
    faults      \* the I/O operations that have failed

env == <<release, describe, cmdline>>
flags == <<goos, goarch, noupgrade, args>>
vars == <<release, describe, cmdline, gover, fs, pc, version, goos, goarch,
          noupgrade, args, argi, cmd, files, idx, out, deb, compiled, logged,
          faults>>

(***************************************************************************)
(* Byte-string helpers (bytes, strings packages).                          *)
(***************************************************************************)

\* s[i] as a one-byte string, "" outside the string.
Ch(s, i) == IF i >= 1 /\ i <= Len(s) THEN SubSeq(s, i, i) ELSE ""

\* s[i:] of Go, with i counted from 1.
From(s, i) == IF i > Len(s) THEN "" ELSE SubSeq(s, i, Len(s))

IsSpace(c) == c \in {" ", "\t", "\n", "\r", "\f"}

IsDigit(c) == c \in {"0", "1", "2", "3", "4", "5", "6", "7", "8", "9"}

IsHex(c) == IsDigit(c) \/ c \in {"a", "b", "c", "d", "e", "f"}

RECURSIVE TrimLeft(_)
TrimLeft(s) == IF Len(s) > 0 /\ IsSpace(Ch(s, 1)) THEN TrimLeft(From(s, 2)) ELSE s

RECURSIVE TrimRight(_)
TrimRight(s) ==
    IF Len(s) > 0 /\ IsSpace(Ch(s, Len(s)))
    THEN TrimRight(SubSeq(s, 1, Len(s) - 1))
    ELSE s

\* bytes.TrimSpace
TrimSpace(s) == TrimRight(TrimLeft(s))

HasPrefixAt(s, i, p) == i + Len(p) - 1 <= Len(s) /\ SubSeq(s, i, i + Len(p) - 1) = p

\* strings.HasSuffix
HasSuffix(s, suf) == Len(s) >= Len(suf) /\ From(s, Len(s) - Len(suf) + 1) = suf

\* The number of digits at s[i], s[i+1], ..., counted up to max.
RECURSIVE DigitRun(_, _, _)
DigitRun(s, i, max) ==
    IF max > 0 /\ IsDigit(Ch(s, i)) THEN 1 + DigitRun(s, i + 1, max - 1) ELSE 0

\* The number of lowercase hex digits at s[i], s[i+1], ..., counted up to max.
RECURSIVE HexRun(_, _, _)
HexRun(s, i, max) ==
    IF max > 0 /\ IsHex(Ch(s, i)) THEN 1 + HexRun(s, i + 1, max - 1) ELSE 0

SetMax(S) == CHOOSE x \in S : \A y \in S : y <= x

(***************************************************************************)
(* versionRe = `-[0-9]{1,3}-g[0-9a-f]{5,10}`                               *)
(***************************************************************************)
MaxCountDigits == 3
MinHashLen == 5
MaxHashLen == 10

\* The length of the match of versionRe that starts at s[i], 0 when there is
\* none. Both repetitions are greedy.
versionReMatch(s, i) ==
    LET ks == {k \in 1..MaxCountDigits :
                  /\ DigitRun(s, i + 1, k) = k
                  /\ Ch(s, i + 1 + k) = "-"
                  /\ Ch(s, i + 2 + k) = "g"
                  /\ HexRun(s, i + 3 + k, MinHashLen) = MinHashLen}
    IN  IF Ch(s, i) # "-" \/ ks = {}
        THEN 0
        ELSE LET k == SetMax(ks) IN 1 + k + 2 + HexRun(s, i + 3 + k, MaxHashLen)

\* versionRe.ReplaceAllFunc(v, func(s) { s[0] = '+'; return s }) from s[i] on:
\* the leftmost match is rewritten and the scan goes on after it.
RECURSIVE versionReReplace(_, _)
versionReReplace(s, i) ==
    IF i > Len(s) THEN ""
    ELSE LET n == versionReMatch(s, i)
         IN  IF n > 0
             THEN "+" \o SubSeq(s, i + 1, i + n - 1) \o versionReReplace(s, i + n)
             ELSE Ch(s, i) \o versionReReplace(s, i + 1)

(***************************************************************************)
(* Version resolution.                                                     *)
(***************************************************************************)

\* runError: the trimmed combined output and the error.
runError(r) == [err |-> r.err, out |-> TrimSpace(r.out)]

getReleaseVersion(rel) ==
    IF ~rel.open THEN [err |-> TRUE, v |-> ""]
    ELSE IF ~rel.read THEN [err |-> TRUE, v |-> ""]
    ELSE [err |-> FALSE, v |-> TrimSpace(rel.data)]

\* getGitVersion with the result of ReplaceAllFunc dropped.
getGitVersionUnnormalized(g) ==
    LET r == runError(g)
    IN  IF r.err THEN [err |-> TRUE, v |-> ""] ELSE [err |-> FALSE, v |-> r.out]

getGitVersion(g) ==
    LET r == runError(g)
    IN  IF r.err THEN [err |-> TRUE, v |-> ""]
        ELSE [err |-> FALSE, v |-> versionReReplace(r.out, 1)]

\* getVersion with the two sources tried in the other order.
getVersionGitFirst(rel, g) ==
    IF ~getGitVersion(g).err THEN getGitVersion(g).v
    ELSE IF ~getReleaseVersion(rel).err THEN getReleaseVersion(rel).v
    ELSE "unknown-dev"

getVersion(rel, g) ==
    IF ~getReleaseVersion(rel).err THEN getReleaseVersion(rel).v
    ELSE IF ~getGitVersion(g).err THEN getGitVersion(g).v
    ELSE "unknown-dev"

(***************************************************************************)
(* The environment of version resolution.                                  *)
(***************************************************************************)
NoRelease == [open |-> FALSE, read |-> FALSE, data |-> ""]
BadRelease == [open |-> TRUE, read |-> FALSE, data |-> ""]
ReleaseOf(d) == [open |-> TRUE, read |-> TRUE, data |-> d]

ReleaseData == {"v9.9.9", "v9.9.9\n", " v0.10.5-rc1 \r\n", "", " \n"}

ReleaseStates == {NoRelease, BadRelease} \cup {ReleaseOf(d) : d \in ReleaseData}

Tags == {"v1.2.3", "v0.10.0-rc1", "r-100", "v1-2-gabcde"}
Counts == {"1", "12", "123"}
Hashes == {"abcde", "0a1b2c3", "0123456789"}
Dirty == {"", "-dirty"}

\* Outputs of the shape <tag>-<N>-g<hash>[-dirty].
DescribeSuffixed ==
    {[tag |-> t, n |-> n, hash |-> h, dirty |-> d] :
        t \in Tags, n \in Counts, h \in Hashes, d \in Dirty}

Render(p) == p.tag \o "-" \o p.n \o "-g" \o p.hash \o p.dirty \o "\n"

\* Outputs without the suffix: an exact tag, an untagged commit, and shapes
\* the pattern does not cover.
DescribePlain ==
    {"v1.2.3\n", "v1.2.3-dirty\n", "abcdef0\n", "abcdef0-dirty\n",
     "v1.2.3-1234-gabcdef0\n", "v1.2.3-5-gabcd\n", "v1.2.3-5-gabcdef012345\n"}

GitOk(o) == [err |-> FALSE, out |-> o]
GitFail == [err |-> TRUE, out |-> "fatal: Not a git repository\n"]

GitResults ==
    {GitFail} \cup {GitOk(Render(p)) : p \in DescribeSuffixed}
              \cup {GitOk(o) : o \in DescribePlain}


(***************************************************************************)
(* The toolchain gate: `go version go(\d+\.\d+)` and minGoVersion.         *)
(***************************************************************************)

\* const minGoVersion = 1.3, in tenths.
minGoVersionTenths == 13

GoVersionPrefix == "go version go"

RECURSIVE Pow10(_)
Pow10(n) == IF n = 0 THEN 1 ELSE 10 * Pow10(n - 1)

DigitValue(c) ==
    CASE c = "0" -> 0 [] c = "1" -> 1 [] c = "2" -> 2 [] c = "3" -> 3
      [] c = "4" -> 4 [] c = "5" -> 5 [] c = "6" -> 6 [] c = "7" -> 7
      [] c = "8" -> 8 [] c = "9" -> 9

\* The number a string of decimal digits denotes.
RECURSIVE DigitsValue(_)
DigitsValue(s) ==
    IF Len(s) = 0 THEN 0
    ELSE 10 * DigitsValue(SubSeq(s, 1, Len(s) - 1)) + DigitValue(Ch(s, Len(s)))

\* Whether the pattern matches at s[i]: the prefix, digits, a dot, digits.
goVersionReAt(s, i) ==
    LET a == i + Len(GoVersionPrefix)
        m == DigitRun(s, a, Len(s))
    IN  /\ HasPrefixAt(s, i, GoVersionPrefix)
        /\ m >= 1
        /\ Ch(s, a + m) = "."
        /\ DigitRun(s, a + m + 1, Len(s)) >= 1

\* re.FindSubmatch(ver): the leftmost match's group 1 as its two digit runs.
FindGoVersion(s) ==
    LET is == {i \in 1..Len(s) : goVersionReAt(s, i)}
    IN  IF is = {} THEN [found |-> FALSE, major |-> "", minor |-> ""]
        ELSE LET i == CHOOSE j \in is : \A k \in is : j <= k
                 a == i + Len(GoVersionPrefix)
                 m == DigitRun(s, a, Len(s))
                 n == DigitRun(s, a + m + 1, Len(s))
             IN  [found |-> TRUE,
                  major |-> SubSeq(s, a, a + m - 1),
                  minor |-> SubSeq(s, a + m + 1, a + m + n)]

\* strconv.ParseFloat(major "." minor) < minGoVersion. The digits after the
\* dot are a decimal fraction: f = major + minor / 10^Len(minor). (With fewer
\* than 16 digits the float64 comparison is the exact one.)
BelowMinGoVersion(major, minor) ==
    10 * (DigitsValue(major) * Pow10(Len(minor)) + DigitsValue(minor))
        < minGoVersionTenths * Pow10(Len(minor))

\* checkRequiredGoVersion: "fatal" or "proceed".
checkRequiredGoVersion(g) ==
    IF g.err THEN "fatal"                    \* run() is fatal when go fails
    ELSE LET m == FindGoVersion(TrimSpace(g.out))
         IN  IF m.found /\ BelowMinGoVersion(m.major, m.minor)
             THEN "fatal"
             ELSE "proceed"

NoGoVersion == [ran |-> FALSE, err |-> FALSE, out |-> ""]

GoVersionOutputs ==
    {"go version go1.2.1 linux/amd64\n", "go version go1.3 linux/amd64\n",
     "go version go1.4.2 darwin/amd64\n", "go version go1.10 linux/amd64\n",
     "go version go2.0 linux/amd64\n", "go version devel +a1b2c3d linux/amd64\n"}

GoVersionResults ==
    {[ran |-> TRUE, err |-> TRUE, out |-> "exec: \"go\": executable file not found\n"]}
        \cup {[ran |-> TRUE, err |-> FALSE, out |-> o] : o \in GoVersionOutputs}

(***************************************************************************)
(* Names.                                                                  *)
(***************************************************************************)
buildArch(os, arch) == (IF os = "darwin" THEN "macosx" ELSE os) \o "-" \o arch

archiveName(os, arch, ver) == "syncthing-" \o buildArch(os, arch) \o "-" \o ver

\* name in buildTar and buildZip.
baseName(os, arch, ver, noupg) ==
    archiveName(os, arch, ver) \o (IF noupg THEN "-noupgrade" ELSE "")

\* binary in build().
binaryName(os) == "syncthing" \o (IF os = "windows" THEN ".exe" ELSE "")

\* The file "go build ./cmd/syncthing" writes for GOOS=os.
goBuildOutput(os) == IF os = "windows" THEN "syncthing.exe" ELSE "syncthing"

\* filepath.Base of a slash-separated path with no trailing slash.
RECURSIVE Base(_)
Base(p) ==
    IF \E i \in 1..Len(p) : Ch(p, i) = "/"
    THEN Base(From(p, 1 + CHOOSE i \in 1..Len(p) : Ch(p, i) = "/"))
    ELSE p

\* strings.Replace(s, old, new, -1) and bytes.Replace, for a non-empty old.
\* The leftmost occurrence is replaced and the scan goes on after it.
RECURSIVE Replace(_, _, _)
Replace(s, old, new) ==
    LET at == {i \in 1..Len(s) : HasPrefixAt(s, i, old)}
    IN  IF at = {} THEN s
        ELSE LET i == CHOOSE j \in at : \A k \in at : j <= k
             IN  SubSeq(s, 1, i - 1) \o new \o Replace(From(s, i + Len(old)), old, new)

(***************************************************************************)
(* Files. A file is [exists, data, mode, mtime]; fs holds the files the    *)
(* build step removes and writes, the other sources are fixed.             *)
(***************************************************************************)
NoFile == [exists |-> FALSE, data |-> "", mode |-> "", mtime |-> ""]

FileOf(d, m, t) == [exists |-> TRUE, data |-> d, mode |-> m, mtime |-> t]

BinPaths == {"syncthing", "syncthing.md5", "syncthing.exe", "syncthing.exe.md5"}

\* The hex digest line md5File writes for a binary.
Md5Line(d) == "md5(" \o d \o ")\n"

StaleBinary == "exe of an earlier run"

NoBinaries == [p \in BinPaths |-> NoFile]

\* What an earlier run for both platforms leaves in the working directory.
Leftover ==
    [p \in BinPaths |->
        IF HasSuffix(p, ".md5")
        THEN FileOf(Md5Line(StaleBinary), "0644", "earlier")
        ELSE FileOf(StaleBinary, "0755", "earlier")]

\* The documentation files and the files of etc/ and extra/.
DocData(p) ==
    CASE p = "README.md" -> "a\nb\n"
      [] p = "LICENSE" -> "x\r\ny\n"
      [] p = "AUTHORS" -> "J\n\nK"
      [] OTHER -> "data of " \o p

\* os.Open(p) followed by Stat and a read of the whole file.
Source(p) == IF p \in BinPaths THEN fs[p] ELSE FileOf(DocData(p), "0644", "earlier")

\* listFiles("etc") and listFiles("extra"): the regular files, in walk order.
EtcListings == {<<>>, <<"etc/linux-upstart/syncthing.conf">>}

\* The files extra/ may hold, in walk order, and how many of them it holds
\* at most.
ExtraPool == <<"extra/FAQ.pdf", "extra/README.txt", "extra/sub/FAQ.pdf">>
MaxExtra == 2

\* The elements of pool at the positions in keep, in the order of pool.
RECURSIVE Pick(_, _, _)
Pick(pool, keep, i) ==
    IF i > Len(pool) THEN <<>>
    ELSE (IF i \in keep THEN <<pool[i]>> ELSE <<>>) \o Pick(pool, keep, i + 1)

ExtraListings ==
    {Pick(ExtraPool, keep, 1) :
        keep \in {k \in SUBSET (1..Len(ExtraPool)) : Cardinality(k) <= MaxExtra}}

\* The binary "go build" links for these flags.
goBuilt(os, arch, ver, tags) ==
    "exe " \o os \o "/" \o arch \o " -X main.Version " \o ver \o " -tags " \o tags

(***************************************************************************)
(* main, up to the dispatch of the commands.                               *)
(***************************************************************************)
MaxArgs == 1

GoosValues == {"linux", "windows", "darwin"}
GoarchValues == {"amd64", "386"}

\* The commands of the switch in main that are modelled, and the arguments
\* a command line may hold.
Known == {"install", "build", "test", "tar", "zip", "deb", "setup", "vet"}
Commands == Known \cup {"bogus"}

RECURSIVE SeqsUpTo(_, _)
SeqsUpTo(S, n) ==
    IF n = 0 THEN {<<>>}
    ELSE SeqsUpTo(S, n - 1) \cup
         {Append(q, c) : q \in {r \in SeqsUpTo(S, n - 1) : Len(r) = n - 1}, c \in S}

\* -version: not given (the default, getVersion(), stays) or given.
VersionFlags == {[set |-> FALSE, v |-> ""], [set |-> TRUE, v |-> "v0.11.0"]}

CommandLines ==
    [goos : GoosValues, goarch : GoarchValues, noupgrade : BOOLEAN,
     version : VersionFlags, args : SeqsUpTo(Commands, MaxArgs)]

\* log.Fatal: the process exits with status 1 at operation op.
Fatal(op) == pc' = "fatal" /\ faults' = faults \cup {op}

\* flag.StringVar(&version, "version", getVersion(), ...) evaluates getVersion.
GetVersion ==
    /\ pc = "start"
    /\ version' = getVersion(release, describe)
    /\ pc' = "flags"
    /\ UNCHANGED <<env, gover, fs, flags, argi, cmd, files, idx, out, deb, compiled,
                   logged, faults>>

\* flag.Parse: the flags and arguments of the command line (-race, which
\* only adds an argument to the go tool runs, is left out).
ParseFlags ==
    /\ pc = "flags"
    /\ goos' = cmdline.goos
    /\ goarch' = cmdline.goarch
    /\ noupgrade' = cmdline.noupgrade
    /\ version' = (IF cmdline.version.set THEN cmdline.version.v ELSE version)
    /\ args' = cmdline.args
    /\ pc' = "gate"
    /\ UNCHANGED <<env, gover, fs, argi, cmd, files, idx, out, deb, compiled,
                   logged, faults>>

\* checkRequiredGoVersion() on what "go version" gives; ver is a local of
\* the function and is kept only where the invocation stops.
CheckRequiredGoVersion ==
    /\ pc = "gate"
    /\ \E g \in GoVersionResults :
          IF checkRequiredGoVersion(g) = "fatal"
          THEN gover' = g /\ Fatal("go version")
          ELSE pc' = "dispatch" /\ UNCHANGED <<gover, faults>>
    /\ UNCHANGED <<env, fs, version, flags, argi, cmd, files, idx, out, deb,
                   compiled, logged>>

\* flag.NArg() == 0: install, vet, lint, return.
NoArgs ==
    /\ pc = "dispatch" /\ Len(args) = 0 /\ argi = 0
    /\ cmd' = ""
    /\ pc' = "install"
    /\ UNCHANGED <<env, gover, fs, version, flags, argi, files, idx, out, deb, compiled,
                   logged, faults>>

\* The next element of flag.Args().
NextArg ==
    /\ pc = "dispatch" /\ argi < Len(args)
    /\ cmd' = args[argi + 1]
    /\ pc' = (IF args[argi + 1] \in Known THEN args[argi + 1] ELSE "unknown")
    /\ argi' = argi + 1
    /\ UNCHANGED <<env, gover, fs, version, flags, files, idx, out, deb, compiled,
                   logged, faults>>

\* The loop over flag.Args() ends and main returns.
ArgsDone ==
    /\ pc = "dispatch" /\ Len(args) > 0 /\ argi = Len(args)
    /\ pc' = "done"
    /\ UNCHANGED <<env, gover, fs, version, flags, argi, cmd, files, idx, out, deb,
                   compiled, logged, faults>>

\* default: log.Fatalf("Unknown command %q", cmd)
UnknownCommand ==
    /\ pc = "unknown"
    /\ pc' = "fatal"
    /\ UNCHANGED <<env, gover, fs, version, flags, argi, cmd, files, idx, out, deb,
                   compiled, logged, faults>>

\* install(pkg, tags): go install, fatal when it fails. Without arguments
\* main goes on to vet and lint, which never fail, and returns.
Install ==
    /\ pc = "install"
    /\ compiled' = compiled \cup {"install"}
    /\ \E ok \in BOOLEAN :
          IF ok THEN /\ pc' = (IF cmd = "" THEN "done" ELSE "dispatch")
                     /\ UNCHANGED faults
                ELSE Fatal("go install")
    /\ UNCHANGED <<env, gover, fs, version, flags, argi, cmd, files, idx, out, deb, logged>>

\* test(pkg): go test, fatal when it fails.
Test ==
    /\ pc = "test"
    /\ compiled' = compiled \cup {"test"}
    /\ \E ok \in BOOLEAN :
          IF ok THEN pc' = "dispatch" /\ UNCHANGED faults ELSE Fatal("go test")
    /\ UNCHANGED <<env, gover, fs, version, flags, argi, cmd, files, idx, out, deb, logged>>

\* setup(): go get, fatal when it fails (assets, xdr, translate, transifex
\* and deps run their tools the same way).
Setup ==
    /\ pc = "setup"
    /\ \E ok \in BOOLEAN :
          IF ok THEN pc' = "dispatch" /\ UNCHANGED faults ELSE Fatal("go get")
    /\ UNCHANGED <<env, gover, fs, version, flags, argi, cmd, files, idx, out, deb,
                   compiled, logged>>

\* vet(pkg) twice: its errors are never fatal (nor are those of lint, clean).
Vet ==
    /\ pc = "vet"
    /\ pc' = "dispatch"
    /\ UNCHANGED <<env, gover, fs, version, flags, argi, cmd, files, idx, out, deb,
                   compiled, logged, faults>>

(***************************************************************************)
(* build(pkg, tags)                                                        *)
(***************************************************************************)

\* The value of -tags for the command that calls build.
buildTags(c, noupg) == IF c = "deb" \/ noupg THEN "noupgrade" ELSE ""

\* Where the caller of build goes on.
afterBuild(c) ==
    CASE c = "tar" -> "tarFiles"
      [] c = "zip" -> "zipFiles"
      [] c = "deb" -> "debFiles"
      [] OTHER -> "dispatch"

\* rmr(binary, binary+".md5")
rmrBinary(f, os) ==
    [f EXCEPT ![binaryName(os)] = NoFile, ![binaryName(os) \o ".md5"] = NoFile]

\* A successful "go build": the linked binary is written.
goBuild(f, os, arch, ver, tags) ==
    [f EXCEPT ![goBuildOutput(os)] = FileOf(goBuilt(os, arch, ver, tags), "0755", "now")]

\* md5File(file) on file system f: the error and the file system after it.
md5File(f, file, fault) ==
    IF ~f[file].exists \/ fault
    THEN [err |-> TRUE, fs |-> f]
    ELSE [err |-> FALSE,
          fs |-> [f EXCEPT ![file \o ".md5"] =
                      FileOf(Md5Line(f[file].data), "0644", "now")]]

Build ==
    /\ pc = "build"
    /\ compiled' = compiled \cup {"build"}
    /\ \E o \in {"ok", "go build", "md5File"} :
          LET removed == rmrBinary(fs, goos)
              linked == goBuild(removed, goos, goarch, version,
                                buildTags(cmd, noupgrade))
              sum == md5File(linked, binaryName(goos), o = "md5File")
          IN  IF o = "go build"
              THEN fs' = removed /\ Fatal("go build")
              ELSE /\ fs' = sum.fs
                   /\ IF sum.err
                      THEN Fatal("md5File")
                      ELSE pc' = afterBuild(cmd) /\ UNCHANGED faults
    /\ UNCHANGED <<env, gover, version, flags, argi, cmd, files, idx, out, deb, logged>>

(***************************************************************************)
(* buildTar and tarGz                                                      *)
(***************************************************************************)
NoArchive == [name |-> "", entries |-> <<>>, closed |-> <<>>]

Entry(s, d) == [src |-> s, dst |-> d, perm |-> ""]

\* The dst of each scanned file: prefix, then the path or its base name.
RECURSIVE Scanned(_, _, _)
Scanned(list, prefix, base) ==
    IF list = <<>> THEN <<>>
    ELSE <<Entry(Head(list),
                 prefix \o (IF base THEN Base(Head(list)) ELSE Head(list)))>>
         \o Scanned(Tail(list), prefix, base)

tarManifest(name, etc, extra) ==
    << Entry("README.md", name \o "/README.txt"),
       Entry("LICENSE", name \o "/LICENSE.txt"),
       Entry("AUTHORS", name \o "/AUTHORS.txt"),
       Entry("syncthing", name \o "/syncthing"),
       Entry("syncthing.md5", name \o "/syncthing.md5") >>
    \o Scanned(etc, name \o "/", FALSE)
    \o Scanned(extra, name \o "/", TRUE)

\* buildTar calls build first.
BuildTar ==
    /\ pc = "tar"
    /\ pc' = "build"
    /\ UNCHANGED <<env, gover, fs, version, flags, argi, cmd, files, idx, out, deb,
                   compiled, logged, faults>>

\* buildTar after build: the manifest from the literal entries and the
\* scans of etc and extra.
BuildTarFiles ==
    /\ pc = "tarFiles"
    /\ \E etc \in EtcListings, extra \in ExtraListings :
          files' = tarManifest(baseName(goos, goarch, version, noupgrade), etc, extra)
    /\ pc' = "tarGz"
    /\ UNCHANGED <<env, gover, fs, version, flags, argi, cmd, idx, out, deb,
                   compiled, logged, faults>>

\* tarGz: os.Create(out) and the two writers over it.
TarCreate ==
    /\ pc = "tarGz"
    /\ \E ok \in BOOLEAN :
          IF ok
          THEN /\ out' = [name |-> baseName(goos, goarch, version, noupgrade) \o ".tar.gz",
                          entries |-> <<>>, closed |-> <<>>]
               /\ idx' = 1
               /\ pc' = "tarEntry"
               /\ UNCHANGED faults
          ELSE Fatal("create") /\ UNCHANGED <<out, idx>>
    /\ UNCHANGED <<env, gover, fs, version, flags, argi, cmd, files, deb, compiled,
                   logged>>

\* tarHeader with the mode taken from the manifest entry.
tarHeaderManifestPerm(f, sf) ==
    [name |-> f.dst, size |-> Len(sf.data), mode |-> f.perm, mtime |-> sf.mtime]

\* The tar header of tarGz for manifest entry f and source file sf.
tarHeader(f, sf) ==
    [name |-> f.dst, size |-> Len(sf.data), mode |-> sf.mode, mtime |-> sf.mtime]

\* One round of the loop of tarGz.
TarEntry ==
    /\ pc = "tarEntry" /\ idx <= Len(files)
    /\ \E o \in {"ok", "open", "stat", "header", "copy"} :
          LET f == files[idx]
              sf == Source(f.src)
              h == tarHeader(f, sf)
          IN  IF ~sf.exists \/ o = "open" THEN Fatal("open") /\ UNCHANGED <<out, idx>>
              ELSE IF o \in {"stat", "header"} THEN Fatal(o) /\ UNCHANGED <<out, idx>>
              ELSE IF o = "copy"
              THEN /\ out' = [out EXCEPT !.entries = Append(@, [h |-> h, data |-> ""])]
                   /\ Fatal("copy")
                   /\ UNCHANGED idx
              ELSE /\ out' = [out EXCEPT !.entries = Append(@, [h |-> h, data |-> sf.data])]
                   /\ idx' = idx + 1
                   /\ UNCHANGED <<pc, faults>>
    /\ UNCHANGED <<env, gover, fs, version, flags, argi, cmd, files, deb, compiled, logged>>

\* The streams closed one after the other until one fails.
RECURSIVE closeAll(_, _)
closeAll(streams, failing) ==
    IF streams = <<>> \/ Head(streams) = failing THEN <<>>
    ELSE <<Head(streams)>> \o closeAll(Tail(streams), failing)

tarStreams == <<"tar", "gzip", "file">>

\* tw.Close(), gw.Close(), fd.Close(), then buildTar's log.Println(filename).
TarClose ==
    /\ pc = "tarEntry" /\ idx > Len(files)
    /\ \E o \in {"ok", "tar", "gzip", "file"} :
          /\ out' = [out EXCEPT !.closed = closeAll(tarStreams, o)]
          /\ IF o = "ok"
             THEN /\ logged' = logged \cup {out.name}
                  /\ pc' = "dispatch"
                  /\ UNCHANGED faults
             ELSE Fatal("close " \o o) /\ UNCHANGED logged
    /\ UNCHANGED <<env, gover, fs, version, flags, argi, cmd, files, idx, deb, compiled>>

(***************************************************************************)
(* buildZip and zipFile                                                    *)
(***************************************************************************)
zipManifest(name, extra) ==
    << Entry("README.md", name \o "/README.txt"),
       Entry("LICENSE", name \o "/LICENSE.txt"),
       Entry("AUTHORS", name \o "/AUTHORS.txt"),
       Entry("syncthing.exe", name \o "/syncthing.exe"),
       Entry("syncthing.exe.md5", name \o "/syncthing.exe.md5") >>
    \o Scanned(extra, name \o "/", TRUE)

\* The line-ending conversion of zipFile: bytes.Replace(bs, "\n", "\n\r", -1).
convertLineEndings(bs) == Replace(bs, "\n", "\n\r")

\* What zipFile stores for an entry named dst with source bytes bs.
zipContent(dst, bs) == IF HasSuffix(dst, ".txt") THEN convertLineEndings(bs) ELSE bs

\* zip.FileInfoHeader(info) with Name, Method and, for text, the sizes set.
zipHeader(f, sf) ==
    [name |-> f.dst, method |-> "deflate", mode |-> sf.mode, mtime |-> sf.mtime,
     size |-> Len(zipContent(f.dst, sf.data))]

\* buildZip calls build first.
BuildZip ==
    /\ pc = "zip"
    /\ pc' = "build"
    /\ UNCHANGED <<env, gover, fs, version, flags, argi, cmd, files, idx, out, deb,
                   compiled, logged, faults>>

\* buildZip after build: the manifest from the literal entries and the
\* scan of extra.
BuildZipFiles ==
    /\ pc = "zipFiles"
    /\ \E extra \in ExtraListings :
          files' = zipManifest(baseName(goos, goarch, version, noupgrade), extra)
    /\ pc' = "zipFile"
    /\ UNCHANGED <<env, gover, fs, version, flags, argi, cmd, idx, out, deb,
                   compiled, logged, faults>>

\* zipFile: os.Create(out) and the zip writer over it.
ZipCreate ==
    /\ pc = "zipFile"
    /\ \E ok \in BOOLEAN :
          IF ok
          THEN /\ out' = [name |-> baseName(goos, goarch, version, noupgrade) \o ".zip",
                          entries |-> <<>>, closed |-> <<>>]
               /\ idx' = 1
               /\ pc' = "zipEntry"
               /\ UNCHANGED faults
          ELSE Fatal("create") /\ UNCHANGED <<out, idx>>
    /\ UNCHANGED <<env, gover, fs, version, flags, argi, cmd, files, deb, compiled,
                   logged>>

\* One round of the loop of zipFile. The error of of.Write(bs), the write of
\* a text entry, is dropped; every other error is fatal.
ZipEntry ==
    /\ pc = "zipEntry" /\ idx <= Len(files)
    /\ \E o \in {"ok", "open", "stat", "header", "read", "write"} :
          LET f == files[idx]
              sf == Source(f.src)
              h == zipHeader(f, sf)
              text == HasSuffix(f.dst, ".txt")
          IN  IF ~sf.exists \/ o = "open" THEN Fatal("open") /\ UNCHANGED <<out, idx>>
              ELSE IF o \in {"stat", "header"} THEN Fatal(o) /\ UNCHANGED <<out, idx>>
              ELSE IF o = "read" /\ text THEN Fatal("read") /\ UNCHANGED <<out, idx>>
              ELSE IF o \in {"read", "write"} /\ ~text
              THEN /\ out' = [out EXCEPT !.entries = Append(@, [h |-> h, data |-> ""])]
                   /\ Fatal("copy")
                   /\ UNCHANGED idx
              ELSE IF o = "write"
              THEN /\ out' = [out EXCEPT !.entries = Append(@, [h |-> h, data |-> ""])]
                   /\ faults' = faults \cup {"write"}
                   /\ idx' = idx + 1
                   /\ UNCHANGED pc
              ELSE /\ out' = [out EXCEPT !.entries =
                                 Append(@, [h |-> h, data |-> zipContent(f.dst, sf.data)])]
                   /\ idx' = idx + 1
                   /\ UNCHANGED <<pc, faults>>
    /\ UNCHANGED <<env, gover, fs, version, flags, argi, cmd, files, deb, compiled, logged>>

zipStreams == <<"zip", "file">>

\* zw.Close(), fd.Close(), then buildZip's log.Println(filename).
ZipClose ==
    /\ pc = "zipEntry" /\ idx > Len(files)
    /\ \E o \in {"ok", "zip", "file"} :
          /\ out' = [out EXCEPT !.closed = closeAll(zipStreams, o)]
          /\ IF o = "ok"
             THEN /\ logged' = logged \cup {out.name}
                  /\ pc' = "dispatch"
                  /\ UNCHANGED faults
             ELSE Fatal("close " \o o) /\ UNCHANGED logged
    /\ UNCHANGED <<env, gover, fs, version, flags, argi, cmd, files, idx, deb, compiled>>

(***************************************************************************)
(* buildDeb and copyFile                                                   *)
(***************************************************************************)
DocDir == "deb/usr/share/doc/syncthing/"

debEntry(s, d, p) == [src |-> s, dst |-> d, perm |-> p]

RECURSIVE debScanned(_)
debScanned(list) ==
    IF list = <<>> THEN <<>>
    ELSE <<debEntry(Head(list), DocDir \o Base(Head(list)), "0644")>>
         \o debScanned(Tail(list))

debManifest(extra) ==
    << debEntry("README.md", DocDir \o "README.txt", "0644"),
       debEntry("LICENSE", DocDir \o "LICENSE.txt", "0644"),
       debEntry("AUTHORS", DocDir \o "AUTHORS.txt", "0644"),
       debEntry("syncthing", "deb/usr/bin/syncthing", "0755") >>
    \o debScanned(extra)

\* os.OpenFile(path, O_CREATE|O_TRUNC|O_WRONLY, perm) and a write of data: an
\* existing file keeps its mode.
writeTree(tree, path, data, perm) ==
    LET old == {e \in tree : e.path = path}
    IN  (tree \ old) \cup
        {[path |-> path, data |-> data,
          perm |-> IF old = {} THEN perm ELSE (CHOOSE e \in old : TRUE).perm]}

controlTemplate ==
    "Package: syncthing\nArchitecture: {{arch}}\nDepends: libc6\nVersion: {{version}}\nMaintainer: Syncthing Release Management <release@syncthing.net>\nDescription: Open Source Continuous File Synchronization\n\tSyncthing does bidirectional synchronization of files between two or\n\tmore computers.\n"

changelogTemplate ==
    "syncthing ({{version}}); urgency=medium\n\n  * Packaging of {{version}}.\n\n -- Jakob Borg <jakob@nym.se>  {{date}}\n"

\* time.Now().Format(time.RFC1123)
NowRFC1123 == "Mon, 02 Nov 2015 10:00:00 UTC"

debArch(arch) == IF arch = "386" THEN "i386" ELSE arch

\* version[1:]
debVersion(ver) == From(ver, 2)

controlFile(arch, ver) ==
    Replace(Replace(controlTemplate, "{{arch}}", debArch(arch)),
            "{{version}}", debVersion(ver))

changelogFile(arch, ver) ==
    Replace(Replace(Replace(changelogTemplate, "{{arch}}", debArch(arch)),
                    "{{version}}", debVersion(ver)),
            "{{date}}", NowRFC1123)

\* os.RemoveAll("deb"), then build.
BuildDeb ==
    /\ pc = "deb"
    /\ deb' = {}
    /\ pc' = "build"
    /\ UNCHANGED <<env, gover, fs, version, flags, argi, cmd, files, idx, out, compiled,
                   logged, faults>>

\* buildDeb after build: the manifest.
BuildDebFiles ==
    /\ pc = "debFiles"
    /\ \E extra \in ExtraListings : files' = debManifest(extra)
    /\ idx' = 1
    /\ pc' = "debCopy"
    /\ UNCHANGED <<env, gover, fs, version, flags, argi, cmd, out, deb, compiled, logged,
                   faults>>

\* One round of the copy loop: copyFile(af.src, af.dst, af.perm).
DebCopy ==
    /\ pc = "debCopy" /\ idx <= Len(files)
    /\ \E o \in {"ok", "open", "create", "copy"} :
          LET f == files[idx]
              sf == Source(f.src)
          IN  IF ~sf.exists \/ o = "open" THEN Fatal("open") /\ UNCHANGED <<deb, idx>>
              ELSE IF o = "create" THEN Fatal("create") /\ UNCHANGED <<deb, idx>>
              ELSE IF o = "copy"
              THEN /\ deb' = writeTree(deb, f.dst, "", f.perm)
                   /\ Fatal("copy")
                   /\ UNCHANGED idx
              ELSE /\ deb' = writeTree(deb, f.dst, sf.data, f.perm)
                   /\ idx' = idx + 1
                   /\ UNCHANGED <<pc, faults>>
    /\ UNCHANGED <<env, gover, fs, version, flags, argi, cmd, files, out, compiled, logged>>

\* The control files written when operation o fails (none fails for "ok"):
\* without the DEBIAN directory no file can be written.
debWritten(o, arch, ver) ==
    {w \in {[path |-> "deb/DEBIAN/control", data |-> controlFile(arch, ver)],
            [path |-> "deb/DEBIAN/compat", data |-> "9\n"],
            [path |-> "deb/DEBIAN/changelog", data |-> changelogFile(arch, ver)]} :
        o # "mkdir" /\ w.path # "deb/DEBIAN/" \o o}

RECURSIVE writeAll(_, _)
writeAll(tree, ws) ==
    IF ws = {} THEN tree
    ELSE LET w == CHOOSE x \in ws : TRUE
         IN  writeAll(writeTree(tree, w.path, w.data, "0644"), ws \ {w})

\* The templating and the writes of buildDeb: version[1:] panics on an empty
\* version; the errors of MkdirAll and WriteFile are dropped.
DebControl ==
    /\ pc = "debCopy" /\ idx > Len(files)
    /\ IF Len(version) = 0
       THEN pc' = "panic" /\ UNCHANGED <<deb, faults>>
       ELSE \E o \in {"ok", "mkdir", "control", "compat", "changelog"} :
               /\ deb' = writeAll(deb, debWritten(o, goarch, version))
               /\ faults' = IF o = "ok" THEN faults ELSE faults \cup {o}
               /\ pc' = "dispatch"
    /\ UNCHANGED <<env, gover, fs, version, flags, argi, cmd, files, idx, out, compiled,
                   logged>>

(***************************************************************************)
(* The whole invocation.                                                   *)
(***************************************************************************)

\* The version sources the whole-invocation specifications start from: one
\* for each way getVersion can end.
VersionSources ==
    { <<NoRelease, GitFail>>,
      <<NoRelease, GitOk("v1.2.3-5-gabcdef01\n")>>,
      <<NoRelease, GitOk("abcdef0-dirty\n")>>,
      <<ReleaseOf("v9.9.9\n"), GitFail>>,
      <<ReleaseOf(" \n"), GitOk("v1.2.3-5-gabcdef01\n")>> }

\* The state of the process as main starts.
Idle ==
    /\ pc = "start"
    /\ gover = NoGoVersion
    /\ version = ""
    /\ goos = "" /\ goarch = "" /\ noupgrade = FALSE /\ args = <<>>
    /\ argi = 0 /\ cmd = ""
    /\ files = <<>> /\ idx = 0
    /\ out = NoArchive
    /\ deb = {}
    /\ compiled = {} /\ logged = {} /\ faults = {}

Init ==
    /\ \E src \in VersionSources : release = src[1] /\ describe = src[2]
    /\ cmdline \in CommandLines
    /\ fs \in {NoBinaries, Leftover}
    /\ Idle

Next ==
    \/ GetVersion \/ ParseFlags \/ CheckRequiredGoVersion
    \/ NoArgs \/ NextArg \/ ArgsDone \/ UnknownCommand
    \/ Install \/ Test \/ Setup \/ Vet \/ Build
    \/ BuildTar \/ BuildTarFiles \/ TarCreate \/ TarEntry \/ TarClose
    \/ BuildZip \/ BuildZipFiles \/ ZipCreate \/ ZipEntry \/ ZipClose
    \/ BuildDeb \/ BuildDebFiles \/ DebCopy \/ DebControl

Spec == Init /\ [][Next]_vars

(***************************************************************************)
(* Version resolution alone, over every marker state and describe output.  *)
(***************************************************************************)
InitVersion ==
    /\ release \in ReleaseStates
    /\ describe \in GitResults
    /\ cmdline \in {c \in CommandLines : c.args = <<>>}
    /\ fs = NoBinaries
    /\ Idle

NextVersion == GetVersion \/ ParseFlags

SpecVersion == InitVersion /\ [][NextVersion]_vars

(***************************************************************************)
(* The invocations "build.go [flags] tar".                                 *)
(***************************************************************************)
InitTar ==
    /\ \E src \in VersionSources : release = src[1] /\ describe = src[2]
    /\ cmdline \in {c \in CommandLines : c.args = <<"tar">>}
    /\ fs \in {NoBinaries, Leftover}
    /\ Idle

NextTar ==
    \/ GetVersion \/ ParseFlags \/ CheckRequiredGoVersion
    \/ NextArg \/ ArgsDone \/ Build
    \/ BuildTar \/ BuildTarFiles \/ TarCreate \/ TarEntry \/ TarClose

SpecTar == InitTar /\ [][NextTar]_vars

(***************************************************************************)
(* Properties.                                                             *)
(***************************************************************************)
Readable(rel) == rel.open /\ rel.read

\* C1: getVersion takes the first source that succeeds: the trimmed content
\* of a readable RELEASE file whatever git describe does, else the normalized
\* output of a successful git describe, else "unknown-dev"; and it never
\* stops the invocation.
C1_FirstSourceWins ==
    /\ pc \in {"start", "flags", "gate"}
    /\ pc = "flags" =>
          /\ Readable(release) => version = TrimSpace(release.data)
          /\ ~Readable(release) /\ ~describe.err =>
                version = versionReReplace(TrimSpace(describe.out), 1)
          /\ ~Readable(release) /\ describe.err => version = "unknown-dev"

\* A readable marker wins although git describe succeeds as well.
C1_Witness ==
    /\ pc = "flags"
    /\ Readable(release) /\ ~describe.err
    /\ version = "v9.9.9"

\* The describe output p was resolved into version.
ResolvedFrom(p) ==
    /\ pc = "flags"
    /\ ~Readable(release)
    /\ describe = GitOk(Render(p))

\* C2 as stated: for every describe output <tag>-<N>-g<hash>[-dirty] exactly
\* one character changes, the hyphen before N; the tag and the rest are
\* byte-identical.
C2_ExactlyOneHyphen ==
    \A p \in DescribeSuffixed :
        ResolvedFrom(p) =>
            version = p.tag \o "+" \o p.n \o "-g" \o p.hash \o p.dirty

\* Whether the tag itself holds a match of versionRe.
TagHoldsMatch(p) == \E i \in 1..Len(p.tag) : versionReMatch(p.tag \o "-", i) > 0

\* C2, amended: the hyphen before N becomes "+", the text after it and the
\* length are unchanged, and inside the tag only the leading hyphen of a
\* further match of the pattern changes (to "+"); a tag without such a match
\* is byte-identical, so that exactly one character changes.
C2_LeadingHyphenOfEachMatch ==
    \A p \in DescribeSuffixed :
        ResolvedFrom(p) =>
            LET in == p.tag \o "-" \o p.n \o "-g" \o p.hash \o p.dirty
                k == Len(p.tag) + 1
            IN  /\ Len(version) = Len(in)
                /\ From(version, k) = "+" \o p.n \o "-g" \o p.hash \o p.dirty
                /\ \A i \in 1..Len(p.tag) :
                      Ch(version, i) # Ch(in, i) =>
                          /\ Ch(in, i) = "-" /\ Ch(version, i) = "+"
                          /\ versionReMatch(in, i) > 0
                /\ ~TagHoldsMatch(p) => SubSeq(version, 1, Len(p.tag)) = p.tag

\* A describe output whose tag holds a match: two hyphens are rewritten.
C2_Witness ==
    /\ pc = "flags"
    /\ ~Readable(release)
    /\ describe = GitOk("v1-2-gabcde-12-g0a1b2c3-dirty\n")
    /\ version = "v1+2-gabcde+12-g0a1b2c3-dirty"

\* bs with a carriage return before every line feed that does not follow one.
RECURSIVE InsertCR(_, _)
InsertCR(bs, i) ==
    IF i > Len(bs) THEN ""
    ELSE (IF Ch(bs, i) = "\n" /\ Ch(bs, i - 1) # "\r" THEN "\r\n" ELSE Ch(bs, i))
         \o InsertCR(bs, i + 1)

\* C3: in zipFile every .txt entry stores the source with a carriage return
\* before each line feed not already preceded by one, with the declared size
\* that of the stored content; every other entry stores the source bytes.
C3_ZipTextIsCRLF ==
    cmd = "zip" /\ faults = {} =>
        \A i \in 1..Len(out.entries) :
            LET src == Source(files[i].src).data
                e == out.entries[i]
            IN  IF HasSuffix(files[i].dst, ".txt")
                THEN e.data = InsertCR(src, 1) /\ e.h.size = Len(InsertCR(src, 1))
                ELSE e.data = src

\* Two entries of the manifest share a destination path.
DuplicateDst(m) == \E i, j \in 1..Len(m) : i # j /\ m[i].dst = m[j].dst

\* C4: a manifest with two entries of the same destination path stops the
\* invocation before an archive entry is written or a file is copied into
\* the package tree.
C4_DuplicateDstFails ==
    DuplicateDst(files) =>
        /\ pc \in {"tarEntry", "zipEntry"} => out.entries = <<>>
        /\ pc = "debCopy" => idx = 1
        /\ pc \notin {"dispatch", "done"}

\* C5: no compile step runs before the gate; a go version below 1.3 stops
\* the invocation with nothing compiled; a go version at or above 1.3 in
\* major.minor terms does not stop it.
C5_GateByMajorMinor ==
    /\ pc \in {"start", "flags", "gate"} => compiled = {}
    /\ gover.ran => compiled = {}
    /\ gover.ran /\ ~gover.err =>
          LET m == FindGoVersion(TrimSpace(gover.out))
          IN  /\ m.found
              /\ \/ DigitsValue(m.major) < 1
                 \/ DigitsValue(m.major) = 1 /\ DigitsValue(m.minor) < 3

\* C6: once a step of the invocation has failed the invocation has stopped
\* there.
C6_EveryFailureFatal == faults # {} => pc = "fatal"

\* C7: tarGz writes one entry per manifest entry, in manifest order, named by
\* dst, with the content, size, mode and modification time of the source
\* file; it closes the tar, gzip and file streams in that order, and a close
\* that fails stops the invocation before the next one.
C7_TarRoundTrip ==
    /\ pc \in {"tarEntry", "dispatch", "done"} /\ cmd = "tar" =>
          /\ pc = "tarEntry" => Len(out.entries) = idx - 1
          /\ pc # "tarEntry" =>
                Len(out.entries) = Len(files) /\ out.closed = <<"tar", "gzip", "file">>
          /\ \A i \in 1..Len(out.entries) :
                LET sf == Source(files[i].src)
                    e == out.entries[i]
                IN  /\ e.h.name = files[i].dst
                    /\ e.data = sf.data
                    /\ e.h.size = Len(sf.data)
                    /\ e.h.mode = sf.mode
                    /\ e.h.mtime = sf.mtime
    /\ out.closed # <<>> => Len(out.entries) = Len(files)
    /\ "close tar" \in faults => pc = "fatal" /\ out.closed = <<>>
    /\ "close gzip" \in faults => pc = "fatal" /\ out.closed = <<"tar">>
    /\ "close file" \in faults => pc = "fatal" /\ out.closed = <<"tar", "gzip">>
    /\ logged # {} => out.closed = <<"tar", "gzip", "file">>

\* A finished archive: every entry written, the three streams closed.
C7_Witness ==
    /\ pc = "done"
    /\ Len(out.entries) = 8
    /\ out.entries[4].h.mode = "0755"
    /\ out.closed = <<"tar", "gzip", "file">>
    /\ out.name \in logged

\* C8: the version getVersion returns, and the one the invocation goes on
\* with, is never empty.
C8_VersionNonEmpty == pc # "start" => Len(version) >= 1

\* C9: for tar and zip and every goos the archive is assembled after the
\* build step, from a manifest that names the binary this build step wrote,
\* and its binary and checksum entries are never those of an earlier run.
C9_ArchiveOfThisBuild ==
    cmd \in {"tar", "zip"} =>
        /\ pc \in {"tarFiles", "tarGz", "tarEntry", "zipFiles", "zipFile", "zipEntry"}
              => "build" \in compiled
        /\ pc \in {"tarGz", "tarEntry", "zipFile", "zipEntry"}
              => \E i \in 1..Len(files) : files[i].src = goBuildOutput(goos)
        /\ pc \in {"tarEntry", "zipEntry", "dispatch", "done"} =>
              \A i \in 1..Len(out.entries) :
                  files[i].src \in BinPaths =>
                      out.entries[i].data \notin {StaleBinary, Md5Line(StaleBinary)}

\* The version with a leading "v" removed, otherwise unchanged.
WithoutLeadingV(ver) == IF Ch(ver, 1) = "v" THEN From(ver, 2) ELSE ver

\* C10: the control and changelog files of buildDeb carry the version with
\* only a leading "v" removed and the architecture with 386 as i386, and no
\* placeholder is left.
C10_DebFields ==
    \A e \in deb :
        /\ e.path = "deb/DEBIAN/control" =>
              e.data = Replace(Replace(controlTemplate, "{{arch}}",
                                       IF goarch = "386" THEN "i386" ELSE goarch),
                               "{{version}}", WithoutLeadingV(version))
        /\ e.path = "deb/DEBIAN/changelog" =>
              e.data = Replace(Replace(changelogTemplate, "{{version}}",
                                       WithoutLeadingV(version)),
                               "{{date}}", NowRFC1123)

====
